---- MODULE Spec2Model ----
(***************************************************************************)
(* Model of src/lib.rs: read_sni_host_name_from_client_hello and its       *)
(* helpers skip, skip_vec_u8, skip_vec_u16 and read_u24.                   *)
(*                                                                         *)
(* The reader is a cursor (pos) over a byte stream plus the remaining      *)
(* budget of the tokio Take wrapper (limit).  One action models one        *)
(* statement of the async function, failures of the statement included.    *)
(***************************************************************************)
EXTENDS Integers, Sequences, FiniteSets, TLC

(***************************************************************************)
(* Bounds of the inputs.                                                   *)
(***************************************************************************)
\* Session id / compression methods hold 0..MaxVecLen bytes, cipher suites twice that.
MaxVecLen == 1
\* Extensions other than SNI before and after the SNI extension, and
\* entries other than host names before and after the host-name entry.
MaxOther == 1
\* Host names hold 0..MaxNameLen bytes.
MaxNameLen == 2

(***************************************************************************)
(* Program constants.                                                      *)
(***************************************************************************)
HANDSHAKE_TYPE_CLIENT_HELLO == 1
EXTENSION_TYPE_SNI == 0
NAME_TYPE_HOST_NAME == 0
\* ProtocolVersion (2 bytes) and random (32 bytes): skip(reader, 34).
RandomLen == 34

\* Before reader.take(len) the raw reader has no budget.
Unlimited == -1

\* std::cmp::min
Min(a, b) == IF a <= b THEN a ELSE b

(***************************************************************************)
(* Wire encoding of the inputs (network byte order).                       *)
(***************************************************************************)
U16(n) == <<(n \div 256) % 256, n % 256>>
U24(n) == <<(n \div 65536) % 256, (n \div 256) % 256, n % 256>>
Fill(n, b) == [i \in 1..n |-> b]

RECURSIVE Flatten(_)
Flatten(ss) == IF ss = <<>> THEN <<>> ELSE Head(ss) \o Flatten(Tail(ss))

\* Bytes host names are made of: 'a' and 0x80 (a continuation byte).
NameBytes == {97, 128}
\* U+00C0 in UTF-8, and its lead byte alone.
TwoByteChar == <<195, 128>>
LeadByteOnly == <<195>>

RECURSIVE SeqsUpTo(_, _)
SeqsUpTo(S, n) ==
    IF n = 0 THEN {<<>>}
    ELSE LET shorter == SeqsUpTo(S, n - 1)
         IN  shorter \cup {Append(s, b) : s \in {t \in shorter : Len(t) = n - 1}, b \in S}

Names == SeqsUpTo(NameBytes, MaxNameLen) \cup {TwoByteChar, LeadByteOnly}

\* NameType host_name(0), RFC 6066.
HostEntry(n) == [typ |-> 0, name |-> n]
\* An entry of another name type; its one byte looks like a host-name type.
OtherEntry == [typ |-> 1, name |-> <<0>>]

\* ServerNameLists: entries of another type, at most one host name, entries of another type.
NameLists ==
    { Fill(before, OtherEntry) \o host \o Fill(after, OtherEntry) :
        before \in 0..MaxOther,
        host \in {<<>>} \cup {<<HostEntry(n)>> : n \in Names},
        after \in 0..MaxOther }

\* ExtensionType server_name(0), RFC 6066.
SniExt(names) == [typ |-> 0, names |-> names, pad |-> 0]
\* The i-th extension of another type: type 0x0100 or 1, with i body bytes.
OtherExt(i) == [typ |-> IF i % 2 = 1 THEN 256 ELSE 1, names |-> <<>>, pad |-> i]
OtherExts(n) == [i \in 1..n |-> OtherExt(i)]

\* A second SNI extension with a valid host name, after the first.
SecondSni == SniExt(<<HostEntry(<<98>>)>>)

SniChoices ==
    {<<>>} \cup {<<SniExt(l)>> : l \in NameLists}
           \cup {<<SniExt(l), SecondSni>> : l \in {m \in NameLists : Len(m) <= 1}}

Hellos ==
    { [v |-> v, exts |-> OtherExts(pre) \o sni \o OtherExts(post)] :
        v \in 0..MaxVecLen, pre \in 0..MaxOther, post \in 0..MaxOther, sni \in SniChoices }

(***************************************************************************)
(* Tampering: how the bytes on the wire differ from the encoding of the    *)
(* hello.  "cut" keeps the first n bytes, "delta" adds n to one declared   *)
(* length, "retype" writes n as the handshake message type.                *)
(***************************************************************************)
NoTamper == [kind |-> "none", field |-> "", n |-> 0]
Delta(t, f) == IF t.kind = "delta" /\ t.field = f THEN t.n ELSE 0

IsSniExt(x) == x.typ = 0

\* Index of the first element of s whose type is 0 (zero = TRUE) or is not 0
\* (zero = FALSE); 0 when there is none.
First(s, zero) ==
    LET hits == {i \in 1..Len(s) : (s[i].typ = 0) = zero}
    IN  IF hits = {} THEN 0 ELSE CHOOSE i \in hits : \A j \in hits : i <= j

FirstSni(exts) == First(exts, TRUE)
FirstOtherExt(exts) == First(exts, FALSE)
FirstHost(names) == First(names, TRUE)
FirstOtherEntry(names) == First(names, FALSE)

\* name_type (1) | length (2) | name
EncodeEntry(e, d) == <<e.typ>> \o U16(Len(e.name) + d) \o e.name

EncodeList(names, t) ==
    Flatten([i \in 1..Len(names) |->
        EncodeEntry(names[i],
            IF i = FirstHost(names) THEN Delta(t, "N")
            ELSE IF i = FirstOtherEntry(names) THEN Delta(t, "K")
            ELSE 0)])

\* extension_type (2) | length (2) | body; the SNI body is list length (2) | list
EncodeExt(x, t) ==
    IF IsSniExt(x)
    THEN LET list == EncodeList(x.names, t)
             body == U16(Len(list) + Delta(t, "S")) \o list
         IN  U16(x.typ) \o U16(Len(body) + Delta(t, "X")) \o body
    ELSE U16(x.typ) \o U16(x.pad + Delta(t, "O")) \o Fill(x.pad, 0)

EncodeExts(exts, t) ==
    Flatten([i \in 1..Len(exts) |->
        EncodeExt(exts[i],
            IF i \in {FirstSni(exts), FirstOtherExt(exts)}
            THEN t ELSE NoTamper)])

\* version and random | session id | cipher suites | compression methods | extensions
EncodeBody(h, t) ==
    LET exts == EncodeExts(h.exts, t)
    IN  <<3, 3>> \o Fill(RandomLen - 2, 0)
        \o <<h.v>> \o Fill(h.v, 0)
        \o U16(2 * h.v) \o Fill(2 * h.v, 0)
        \o <<h.v>> \o Fill(h.v, 0)
        \o U16(Len(exts) + Delta(t, "E")) \o exts

\* msg_type (1) | length (3) | body
EncodeHello(h, t) ==
    LET body == EncodeBody(h, t)
    IN  <<IF t.kind = "retype" THEN t.n ELSE 1>>
        \o U24(Len(body) + Delta(t, "L")) \o body

\* What follows the handshake message on the stream: bytes that read as an
\* SNI extension carrying the host name "x".
Trailer == <<0, 0, 0, 6, 0, 4, 0, 0, 1, 120>>

InputOf(h, t) ==
    LET full == EncodeHello(h, t) \o Trailer
    IN  IF t.kind = "cut" THEN SubSeq(full, 1, t.n) ELSE full

\* The true length of the field a delta applies to, -1 when the hello has no such field.
FieldLen(h, f) ==
    LET si == FirstSni(h.exts)
        oi == FirstOtherExt(h.exts)
        names == IF si = 0 THEN <<>> ELSE h.exts[si].names
        hi == FirstHost(names)
        ki == FirstOtherEntry(names)
    IN  CASE f = "L" -> Len(EncodeBody(h, NoTamper))
          [] f = "E" -> Len(EncodeExts(h.exts, NoTamper))
          [] f = "X" -> IF si = 0 THEN -1 ELSE 2 + Len(EncodeList(names, NoTamper))
          [] f = "S" -> IF si = 0 THEN -1 ELSE Len(EncodeList(names, NoTamper))
          [] f = "N" -> IF hi = 0 THEN -1 ELSE Len(names[hi].name)
          [] f = "K" -> IF ki = 0 THEN -1 ELSE Len(names[ki].name)
          [] f = "O" -> IF oi = 0 THEN -1 ELSE h.exts[oi].pad

Fields == {"L", "E", "X", "S", "N", "K", "O"}
WrongTypes == {0, 2}

\* A tampered length is one less or one more than the true length (modulo 2^16).
Deltas == {-1, 1}

\* The last byte of the hello is the last byte of the first host name, or
\* the hello has no host name in its first SNI extension.
EndsAtName(h) ==
    LET si == FirstSni(h.exts)
    IN  \/ si = 0
        \/ /\ si = Len(h.exts)
           /\ FirstHost(h.exts[si].names) \in {0, Len(h.exts[si].names)}

Cuts(h) ==
    IF EndsAtName(h)
    THEN {[kind |-> "cut", field |-> "", n |-> k] : k \in 0..(Len(InputOf(h, NoTamper)) - 1)}
    ELSE {}

Tampers(h) ==
    {NoTamper}
    \cup Cuts(h)
    \cup {[kind |-> "delta", field |-> f, n |-> d] :
            f \in {g \in Fields : FieldLen(h, g) >= 0}, d \in Deltas}
    \cup {[kind |-> "retype", field |-> "", n |-> b] : b \in WrongTypes}

(***************************************************************************)
(* State.                                                                  *)
(***************************************************************************)
VARIABLES
    stream,     \* the bytes the underlying reader delivers before end of stream
    hello,      \* the ClientHello the sender encoded
    tamper,     \* how the stream differs from the encoding of hello
    pos,        \* bytes consumed from the underlying reader
    limit,      \* Take::limit(): the remaining budget, Unlimited before take(len)
    pc,         \* the statement the extraction is at
    result,     \* the io::Result the call returned, NoResult while it runs
    len,        \* handshake message length
    ext_typ,    \* extension type of the current extension
    ext_len,    \* declared length of the current extension
    name_typ,   \* name type of the current ServerNameList entry
    extsSeen,   \* the extension headers read so far: type, declared length, and
                \* the position and the budget left after the header
    namesSeen,  \* the name types read so far, in order
    fut         \* the same call on the same stream, polled as the bytes arrive:
                \* the await it is at, the bytes that await has got so far,
                \* its reader, and whether it is suspended

vars == <<stream, hello, tamper, pos, limit, pc, result, len, ext_typ, ext_len,
          name_typ, extsSeen, namesSeen, fut>>

(***************************************************************************)
(* Results and errors.                                                     *)
(***************************************************************************)
NoResult == [tag |-> "none", kind |-> "", msg |-> "", detail |-> <<>>, name |-> <<>>]
Ok(name) == [tag |-> "ok", kind |-> "", msg |-> "", detail |-> <<>>, name |-> name]
Error(kind, msg, detail) ==
    [tag |-> "err", kind |-> kind, msg |-> msg, detail |-> detail, name |-> <<>>]

\* "handshake message not a ClientHello (type {}, expected {})"
WrongTypeError(typ) ==
    Error("InvalidData", "handshake message not a ClientHello",
          <<typ, HANDSHAKE_TYPE_CLIENT_HELLO>>)
\* "skip read {} < {} bytes"
SkipError(bytes_read, n) == Error("UnexpectedEof", "skip read", <<bytes_read, n>>)
\* tokio's read_exact: io::Error::new(UnexpectedEof, "early eof")
EarlyEof == Error("UnexpectedEof", "early eof", <<>>)
\* tokio's read_u8 / read_u16: io::Error::from(UnexpectedEof)
IntEof == Error("UnexpectedEof", "", <<>>)

(***************************************************************************)
(* The reader: r = [pos, limit].                                           *)
(***************************************************************************)
Reader == [pos |-> pos, limit |-> limit]

\* As Avail, with the budget not enforced.
AvailIgnoringLimit(r) == Len(stream) - r.pos

\* Bytes a read can still get: what the stream holds, within the budget.
Avail(r) ==
    LET left == Len(stream) - r.pos
    IN  IF r.limit = Unlimited THEN left ELSE Min(left, r.limit)

Consume(r, n) ==
    [pos |-> r.pos + n, limit |-> IF r.limit = Unlimited THEN Unlimited ELSE r.limit - n]

Done(r, val) == [ok |-> TRUE, val |-> val, r |-> r, err |-> NoResult]
Failed(r, err) == [ok |-> FALSE, val |-> 0, r |-> r, err |-> err]

\* read_exact: n bytes, or everything that is left and then err.
ReadBytes(r, n, err) ==
    IF Avail(r) >= n
    THEN Done(Consume(r, n), SubSeq(stream, r.pos + 1, r.pos + n))
    ELSE Failed(Consume(r, Avail(r)), err)

\* As ReadExact, with a read of no bytes taken for the end of the data.
ReadExactEofOnEmpty(r, n) ==
    IF n = 0 THEN Failed(r, EarlyEof) ELSE ReadBytes(r, n, EarlyEof)

ReadExact(r, n) == ReadBytes(r, n, EarlyEof)

ReadU8(r) ==
    LET b == ReadBytes(r, 1, IntEof)
    IN  IF b.ok THEN Done(b.r, b.val[1]) ELSE b

\* As ReadU16, in little-endian byte order.
ReadU16LittleEndian(r) ==
    LET b == ReadBytes(r, 2, IntEof)
    IN  IF b.ok THEN Done(b.r, b.val[1] + b.val[2] * 256) ELSE b

ReadU16(r) ==
    LET b == ReadBytes(r, 2, IntEof)
    IN  IF b.ok THEN Done(b.r, b.val[1] * 256 + b.val[2]) ELSE b

\* As ReadU24, with the value kept in 16 bits.
ReadU24Truncated(r) ==
    LET b == ReadExact(r, 3)
    IN  IF b.ok THEN Done(b.r, (b.val[1] * 65536 + b.val[2] * 256 + b.val[3]) % 65536)
        ELSE b

ReadU24(r) ==
    LET b == ReadExact(r, 3)
    IN  IF b.ok THEN Done(b.r, b.val[1] * 65536 + b.val[2] * 256 + b.val[3]) ELSE b

\* As Skip, failing like read_exact does, without the byte counts.
SkipEarlyEof(r, n) ==
    LET bytes_read == Min(n, Avail(r))
    IN  IF bytes_read < n
        THEN Failed(Consume(r, bytes_read), EarlyEof)
        ELSE Done(Consume(r, bytes_read), 0)

\* As Skip, without the check of the number of bytes copied.
SkipUnchecked(r, n) == Done(Consume(r, Min(n, Avail(r))), 0)

\* io::copy(&mut reader.take(len), &mut io::sink()): copies until n bytes are
\* through or the reader is at its end.
Skip(r, n) ==
    LET bytes_read == Min(n, Avail(r))
    IN  IF bytes_read < n
        THEN Failed(Consume(r, bytes_read), SkipError(bytes_read, n))
        ELSE Done(Consume(r, bytes_read), 0)

\* As SkipVecU8, with a failed length read taken for an empty vector.
SkipVecU8Lenient(r) ==
    LET sz == ReadU8(r)
    IN  IF sz.ok THEN Skip(sz.r, sz.val) ELSE Done(sz.r, 0)

SkipVecU8(r) ==
    LET sz == ReadU8(r)
    IN  IF sz.ok THEN Skip(sz.r, sz.val) ELSE sz

\* As SkipVecU16, with the length read and the bytes not skipped.
SkipVecU16LengthOnly(r) ==
    LET sz == ReadU16(r)
    IN  IF sz.ok THEN Done(sz.r, 0) ELSE sz

SkipVecU16(r) ==
    LET sz == ReadU16(r)
    IN  IF sz.ok THEN Skip(sz.r, sz.val) ELSE sz

\* As Take, with the 4 header bytes counted into the budget.
TakeWithHeader(r, n) == [pos |-> r.pos, limit |-> n + 4]

\* reader.take(len)
Take(r, n) == [pos |-> r.pos, limit |-> n]

\* As NewLimit, with the declared length alone.
NewLimitDeclared(cur, declared) == declared

\* min(reader.limit(), declared.into())
NewLimit(cur, declared) == Min(cur, declared)

\* reader.set_limit(new_limit)
SetLimit(r, declared) == [pos |-> r.pos, limit |-> NewLimit(r.limit, declared)]

(***************************************************************************)
(* String::from_utf8: the bytes unchanged when they are well-formed UTF-8, *)
(* else a FromUtf8Error that carries the length of the valid prefix.       *)
(***************************************************************************)
IsCont(x) == x \in 128..191

\* Length of the well-formed character that starts at b[i], 0 when there is none.
CharLen(b, i) ==
    LET c == b[i]
        at(k) == IF i + k <= Len(b) THEN b[i + k] ELSE -1
    IN  CASE c \in 0..127 -> 1
          [] c \in 194..223 -> IF IsCont(at(1)) THEN 2 ELSE 0
          [] c = 224 -> IF at(1) \in 160..191 /\ IsCont(at(2)) THEN 3 ELSE 0
          [] c \in (225..236) \cup (238..239) ->
                IF IsCont(at(1)) /\ IsCont(at(2)) THEN 3 ELSE 0
          [] c = 237 -> IF at(1) \in 128..159 /\ IsCont(at(2)) THEN 3 ELSE 0
          [] c = 240 ->
                IF at(1) \in 144..191 /\ IsCont(at(2)) /\ IsCont(at(3)) THEN 4 ELSE 0
          [] c \in 241..243 ->
                IF IsCont(at(1)) /\ IsCont(at(2)) /\ IsCont(at(3)) THEN 4 ELSE 0
          [] c = 244 ->
                IF at(1) \in 128..143 /\ IsCont(at(2)) /\ IsCont(at(3)) THEN 4 ELSE 0
          [] OTHER -> 0

RECURSIVE ValidUpTo(_, _)
ValidUpTo(b, i) ==
    IF i > Len(b) THEN Len(b)
    ELSE LET k == CharLen(b, i)
         IN  IF k = 0 THEN i - 1 ELSE ValidUpTo(b, i + k)

IsUtf8(b) == ValidUpTo(b, 1) = Len(b)

\* As FromUtf8, lossy: the valid prefix and U+FFFD for the rest.
FromUtf8Lossy(b) ==
    IF IsUtf8(b) THEN Ok(b)
    ELSE Ok(SubSeq(b, 1, ValidUpTo(b, 1)) \o <<239, 191, 189>>)

FromUtf8(b) ==
    IF IsUtf8(b) THEN Ok(b)
    ELSE Error("InvalidData", "invalid utf-8", <<ValidUpTo(b, 1)>>)

(***************************************************************************)
(* Initial states: the call starts at the first byte of the stream.        *)
(***************************************************************************)
\* The future the async fn returns, before its first poll: at the read of the
\* type byte, nothing consumed.
FutInit ==
    [pc |-> "type", want |-> 1, got |-> <<>>, pos |-> 0, limit |-> Unlimited,
     ext_typ |-> 0, result |-> NoResult, pending |-> FALSE, split |-> FALSE]

Init ==
    /\ hello \in Hellos
    /\ tamper \in Tampers(hello)
    /\ stream = InputOf(hello, tamper)
    /\ pos = 0
    /\ limit = Unlimited
    /\ pc = "type"
    /\ result = NoResult
    /\ len = 0
    /\ ext_typ = 0
    /\ ext_len = 0
    /\ name_typ = 0
    /\ extsSeen = <<>>
    /\ namesSeen = <<>>
    /\ fut = FutInit

(***************************************************************************)
(* The statements of read_sni_host_name_from_client_hello.                 *)
(***************************************************************************)
input == <<stream, hello, tamper>>

\* The reader after the statement.
Moved(r) == pos' = r.pos /\ limit' = r.limit
\* `?` and `return`: the call ends with result e.
Return(e) == pc' = "done" /\ result' = e
Goto(label) == pc' = label /\ result' = result

\* As ReadType, with the type checked after the length is read.
ReadTypeAfterLen ==
    /\ pc = "type"
    /\ LET typ == ReadU8(Reader)
           l == ReadU24(typ.r)
       IN  IF ~typ.ok THEN Moved(typ.r) /\ Return(typ.err)
           ELSE IF ~l.ok THEN Moved(l.r) /\ Return(l.err)
           ELSE IF typ.val # HANDSHAKE_TYPE_CLIENT_HELLO
                THEN Moved(l.r) /\ Return(WrongTypeError(typ.val))
                ELSE Moved(Take(l.r, l.val)) /\ Goto("random")
    /\ UNCHANGED <<input, fut, len, ext_typ, ext_len, name_typ, extsSeen, namesSeen>>

\* let typ = reader.read_u8().await?; if typ != HANDSHAKE_TYPE_CLIENT_HELLO { return Err }
ReadType ==
    /\ pc = "type"
    /\ LET typ == ReadU8(Reader)
       IN  /\ Moved(typ.r)
           /\ IF ~typ.ok THEN Return(typ.err)
              ELSE IF typ.val # HANDSHAKE_TYPE_CLIENT_HELLO
                   THEN Return(WrongTypeError(typ.val))
                   ELSE Goto("len")
    /\ UNCHANGED <<input, fut, len, ext_typ, ext_len, name_typ, extsSeen, namesSeen>>

\* let len = read_u24(reader.as_mut()).await?; let reader = reader.take(len.into());
ReadLen ==
    /\ pc = "len"
    /\ LET l == ReadU24(Reader)
       IN  IF l.ok
           THEN Moved(Take(l.r, l.val)) /\ len' = l.val /\ Goto("random")
           ELSE Moved(l.r) /\ len' = len /\ Return(l.err)
    /\ UNCHANGED <<input, fut, ext_typ, ext_len, name_typ, extsSeen, namesSeen>>

\* A statement that only skips: skip(..).await? or skip_vec_..(..).await?
SkipStep(from, skipped, to) ==
    /\ pc = from
    /\ Moved(skipped.r)
    /\ IF skipped.ok THEN Goto(to) ELSE Return(skipped.err)
    /\ UNCHANGED <<input, fut, len, ext_typ, ext_len, name_typ, extsSeen, namesSeen>>

\* skip(reader.as_mut(), 34).await?;
SkipRandom == SkipStep("random", Skip(Reader, RandomLen), "session_id")

\* skip_vec_u8(reader.as_mut()).await?;
SkipSessionId == SkipStep("session_id", SkipVecU8(Reader), "cipher_suites")

\* skip_vec_u16(reader.as_mut()).await?;
SkipCipherSuites == SkipStep("cipher_suites", SkipVecU16(Reader), "compression")

\* skip_vec_u8(reader.as_mut()).await?;
SkipCompression == SkipStep("compression", SkipVecU8(Reader), "extensions")

\* let ext_len = reader.read_u16().await?; reader.set_limit(min(reader.limit(), ext_len))
ReadExtensionsLen ==
    /\ pc = "extensions"
    /\ LET e == ReadU16(Reader)
       IN  IF e.ok
           THEN Moved(SetLimit(e.r, e.val)) /\ ext_len' = e.val /\ Goto("ext_header")
           ELSE Moved(e.r) /\ ext_len' = ext_len /\ Return(e.err)
    /\ UNCHANGED <<input, fut, len, ext_typ, name_typ, extsSeen, namesSeen>>

\* let ext_typ = reader.read_u16().await?; let ext_len = reader.read_u16().await?;
ReadExtHeader ==
    /\ pc = "ext_header"
    /\ LET t == ReadU16(Reader)
           l == ReadU16(t.r)
       IN  IF ~t.ok
           THEN /\ Moved(t.r) /\ Return(t.err)
                /\ UNCHANGED <<ext_typ, ext_len, extsSeen>>
           ELSE /\ ext_typ' = t.val
                /\ Moved(l.r)
                /\ IF l.ok
                   THEN /\ ext_len' = l.val
                        /\ extsSeen' = Append(extsSeen,
                              [typ |-> t.val, len |-> l.val,
                               at |-> l.r.pos, room |-> l.r.limit])
                        /\ Goto("ext_body")
                   ELSE /\ UNCHANGED <<ext_len, extsSeen>>
                        /\ Return(l.err)
    /\ UNCHANGED <<input, fut, len, name_typ, namesSeen>>

\* As SkipExtension, with the budget narrowed to the extension before the skip.
SkipExtensionNarrowed ==
    /\ ext_typ # EXTENSION_TYPE_SNI
    /\ SkipStep("ext_body", Skip(SetLimit(Reader, ext_len), ext_len), "ext_header")

\* if ext_typ != EXTENSION_TYPE_SNI { skip(reader.as_mut(), ext_len.into()).await?; continue; }
SkipExtension ==
    /\ ext_typ # EXTENSION_TYPE_SNI
    /\ SkipStep("ext_body", Skip(Reader, ext_len), "ext_header")

\* reader.set_limit(min(limit, ext_len)); let snl_len = reader.read_u16().await?;
\* reader.set_limit(min(limit, snl_len));
EnterServerNameList ==
    /\ pc = "ext_body"
    /\ ext_typ = EXTENSION_TYPE_SNI
    /\ LET snl_len == ReadU16(SetLimit(Reader, ext_len))
       IN  IF snl_len.ok
           THEN Moved(SetLimit(snl_len.r, snl_len.val)) /\ Goto("name_type")
           ELSE Moved(snl_len.r) /\ Return(snl_len.err)
    /\ UNCHANGED <<input, fut, len, ext_typ, ext_len, name_typ, extsSeen, namesSeen>>

\* As ReadNameType, with the end of a ServerNameList that held no host name
\* taken for the end of that extension: the extensions budget is restored
\* and the loop over the extensions goes on.
ReadNameTypeNextExtension ==
    /\ pc = "name_type"
    /\ LET t == ReadU8(Reader)
       IN  /\ pos' = t.r.pos
           /\ IF t.ok
              THEN /\ limit' = t.r.limit
                   /\ name_typ' = t.val
                   /\ namesSeen' = Append(namesSeen, t.val)
                   /\ Goto("name_body")
              ELSE /\ LET ext == extsSeen[Len(extsSeen)]
                      IN  limit' = ext.room - (pos - ext.at)
                   /\ UNCHANGED <<name_typ, namesSeen>>
                   /\ Goto("ext_header")
    /\ UNCHANGED <<input, fut, len, ext_typ, ext_len, extsSeen>>

\* let name_typ = reader.read_u8().await?;
ReadNameType ==
    /\ pc = "name_type"
    /\ LET t == ReadU8(Reader)
       IN  /\ Moved(t.r)
           /\ IF t.ok
              THEN /\ name_typ' = t.val
                   /\ namesSeen' = Append(namesSeen, t.val)
                   /\ Goto("name_body")
              ELSE /\ UNCHANGED <<name_typ, namesSeen>>
                   /\ Return(t.err)
    /\ UNCHANGED <<input, fut, len, ext_typ, ext_len, extsSeen>>

\* if name_typ != NAME_TYPE_HOST_NAME { skip_vec_u16(reader.as_mut()).await?; continue; }
SkipName ==
    /\ name_typ # NAME_TYPE_HOST_NAME
    /\ SkipStep("name_body", SkipVecU16(Reader), "name_type")

\* As ReadHostName, reading on to the end of the budget after the name.
ReadHostNameDrain ==
    /\ pc = "name_body"
    /\ name_typ = NAME_TYPE_HOST_NAME
    /\ LET name_len == ReadU16(Reader)
           name_buf == ReadExact(name_len.r, name_len.val)
       IN  IF ~name_len.ok
           THEN Moved(name_len.r) /\ Return(name_len.err)
           ELSE /\ Moved(Consume(name_buf.r, Avail(name_buf.r)))
                /\ IF name_buf.ok THEN Return(FromUtf8(name_buf.val))
                   ELSE Return(name_buf.err)
    /\ UNCHANGED <<input, fut, len, ext_typ, ext_len, name_typ, extsSeen, namesSeen>>

\* As ReadHostName, with one read in place of read_exact: the name is the
\* bytes that are there, at most name_len.
ReadHostNameShort ==
    /\ pc = "name_body"
    /\ name_typ = NAME_TYPE_HOST_NAME
    /\ LET name_len == ReadU16(Reader)
           narrowed == SetLimit(name_len.r, name_len.val)
           name_buf == ReadExact(narrowed, Min(name_len.val, Avail(narrowed)))
       IN  IF ~name_len.ok
           THEN Moved(name_len.r) /\ Return(name_len.err)
           ELSE Moved(name_buf.r) /\ Return(FromUtf8(name_buf.val))
    /\ UNCHANGED <<input, fut, len, ext_typ, ext_len, name_typ, extsSeen, namesSeen>>

\* let name_len = reader.read_u16().await?; reader.set_limit(min(limit, name_len));
\* reader.read_exact(&mut name_buf).await?; return String::from_utf8(name_buf)
ReadHostName ==
    /\ pc = "name_body"
    /\ name_typ = NAME_TYPE_HOST_NAME
    /\ LET name_len == ReadU16(Reader)
           name_buf == ReadExact(SetLimit(name_len.r, name_len.val), name_len.val)
       IN  IF ~name_len.ok
           THEN Moved(name_len.r) /\ Return(name_len.err)
           ELSE /\ Moved(name_buf.r)
                /\ IF name_buf.ok THEN Return(FromUtf8(name_buf.val))
                   ELSE Return(name_buf.err)
    /\ UNCHANGED <<input, fut, len, ext_typ, ext_len, name_typ, extsSeen, namesSeen>>

Next ==
    \/ ReadType
    \/ ReadLen
    \/ SkipRandom
    \/ SkipSessionId
    \/ SkipCipherSuites
    \/ SkipCompression
    \/ ReadExtensionsLen
    \/ ReadExtHeader
    \/ SkipExtension
    \/ EnterServerNameList
    \/ ReadNameType
    \/ SkipName
    \/ ReadHostName

Spec == Init /\ [][Next]_vars

(***************************************************************************)
(* What the sender put into the hello, for comparison with what the        *)
(* extraction returns.                                                     *)
(***************************************************************************)
SniCount(h) == Cardinality({i \in 1..Len(h.exts) : IsSniExt(h.exts[i])})

\* The ServerNameList of the first SNI extension, empty when there is none.
FirstNames(h) ==
    IF FirstSni(h.exts) = 0 THEN <<>> ELSE h.exts[FirstSni(h.exts)].names

HasHost(h) == FirstHost(FirstNames(h)) # 0
TheHostName(h) == FirstNames(h)[FirstHost(FirstNames(h))].name

\* The hello up to and including its first host name.
UpToName(h) ==
    [v |-> h.v,
     exts |-> SubSeq(h.exts, 1, FirstSni(h.exts) - 1)
              \o <<SniExt(SubSeq(FirstNames(h), 1, FirstHost(FirstNames(h))))>>]

\* Offset just past the last byte of the first host name.
NameEnd(h) == Len(EncodeHello(UpToName(h), NoTamper))

\* A well-formed ClientHello with exactly one host name: nothing tampered,
\* one SNI extension (RFC 8446 4.2 allows one extension of a type), one host
\* name in it, and the name is text.
WellFormedOne ==
    /\ tamper = NoTamper
    /\ SniCount(hello) = 1
    /\ Cardinality({i \in 1..Len(FirstNames(hello)) : FirstNames(hello)[i].typ = 0}) = 1
    /\ IsUtf8(TheHostName(hello))

\* C1: for every well-formed ClientHello with exactly one SNI host-name entry,
\* the call returns exactly the bytes of that entry, whatever extensions of
\* other types and entries of other name types stand before or after it.
C1_ReturnsTheHostName ==
    (pc = "done" /\ WellFormedOne) => result = Ok(TheHostName(hello))

\* C1 witness: a name of at least one byte returned from between other
\* extensions and other entries.
C1_Witness ==
    /\ pc = "done" /\ WellFormedOne
    /\ result.tag = "ok" /\ Len(result.name) >= 1
    /\ FirstSni(hello.exts) > 1 /\ FirstSni(hello.exts) < Len(hello.exts)
    /\ FirstHost(FirstNames(hello)) > 1
    /\ FirstHost(FirstNames(hello)) < Len(FirstNames(hello))

\* The input is truncated: the stream ends before the host name does (or
\* before the message does when it has no host name); or the name is the last
\* thing in the message and the handshake, extensions, SNI extension or
\* ServerNameList length is one too small for it; or the name length is one
\* more than the payload the list has room for.
TruncatedInput ==
    \/ /\ tamper.kind = "cut"
       /\ tamper.n < (IF HasHost(hello) THEN NameEnd(hello)
                      ELSE Len(EncodeHello(hello, NoTamper)))
    \/ /\ tamper.kind = "delta"
       /\ HasHost(hello) /\ EndsAtName(hello)
       /\ \/ tamper.n = -1 /\ tamper.field \in {"L", "E", "X", "S"}
          \/ tamper.n = 1 /\ tamper.field = "N"

Last(s) == s[Len(s)]

\* The reads stay inside the handshake message: the budget is never negative
\* and ends no later than the message does.
WithinHandshake ==
    limit # Unlimited => (limit >= 0 /\ pos + limit <= 4 + len)

\* An extension header declared more bytes than the handshake body had left.
SawOverlongExt ==
    \E i \in 1..Len(extsSeen) : extsSeen[i].len > 4 + len - extsSeen[i].at

C4_NoHostNameFails ==
    (pc = "done" /\ tamper = NoTamper /\ ~HasHost(hello)) =>
        (result.tag = "err" /\ result.kind = "UnexpectedEof" /\ limit = 0)

\* C4 witness: the only entry of the ServerNameList has name type 1.
C4_Witness ==
    /\ pc = "done" /\ tamper = NoTamper
    /\ SniCount(hello) = 1
    /\ Len(FirstNames(hello)) = 1 /\ FirstNames(hello)[1].typ = 1
    /\ namesSeen = <<1>>
    /\ result.kind = "UnexpectedEof"

\* C5: when the first byte is not 1 the call fails with the wrong-message-type
\* error that names the byte and the expected 1, and only that byte is consumed.
C5_WrongTypeFails ==
    (pc = "done" /\ Len(stream) >= 1 /\ stream[1] # 1) =>
        /\ result.tag = "err" /\ result.kind = "InvalidData"
        /\ result.detail = <<stream[1], 1>>
        /\ pos = 1

\* C5 witness: the handshake type byte is 2.
C5_Witness ==
    /\ pc = "done" /\ stream # <<>> /\ stream[1] = 2
    /\ result.kind = "InvalidData" /\ result.detail = <<2, 1>>

\* Text, for the bytes the inputs are made of (0..127, 0x80, 0xC3, 0xFF):
\* 0x80 only after 0xC3, 0xC3 only before 0x80, never 0xFF.
IsText(b) ==
    \A i \in 1..Len(b) :
        \/ b[i] < 128
        \/ b[i] = 195 /\ i < Len(b) /\ b[i + 1] = 128
        \/ b[i] = 128 /\ i > 1 /\ b[i - 1] = 195

\* The big-endian 16-bit number in the two bytes after offset i of the stream.
U16At(i) == stream[i + 1] * 256 + stream[i + 2]

\* The n bytes of the stream that end at the read position.
LastRead(n) == SubSeq(stream, pos - n + 1, pos)

\* C6: a host name that was read in full and is not valid UTF-8 makes the
\* call fail with the invalid-encoding error; a returned name is exactly the
\* N bytes read, N being the declared length, and is text: nothing is
\* replaced, dropped or cut.
C6_InvalidUtf8Fails ==
    pc = "done" =>
        /\ result.tag = "ok" =>
              /\ IsText(result.name)
              /\ result.name = LastRead(Len(result.name))
              /\ U16At(pos - Len(result.name) - 2) = Len(result.name)
        /\ (tamper = NoTamper /\ HasHost(hello)) =>
              IF IsText(TheHostName(hello))
              THEN result = Ok(TheHostName(hello))
              ELSE result.tag = "err" /\ result.kind = "InvalidData"
                   /\ result.msg = "invalid utf-8"

\* C6 witness: the host name is the lone continuation byte 0x80.
C6_Witness ==
    /\ pc = "done" /\ tamper = NoTamper
    /\ HasHost(hello) /\ TheHostName(hello) = <<128>>
    /\ result.kind = "InvalidData" /\ result.msg = "invalid utf-8"
    /\ LastRead(1) = <<128>>

\* C7: the budget only shrinks.  At every step it shrinks by at least the
\* bytes consumed, and each narrowing (extensions block, SNI extension,
\* ServerNameList, name) sets it to the minimum of what is left and the
\* declared length; the handshake length is the first budget, the raw
\* reader having none.
C7_BudgetShrinks ==
    [][ /\ (pc = "len" /\ pc' = "random") => limit' = len'
        /\ limit # Unlimited =>
            /\ limit' <= limit - (pos' - pos)
            /\ (pc = "extensions" /\ pc' = "ext_header") =>
                  limit' = Min(limit - 2, U16At(pos))
            /\ (pc = "ext_body" /\ pc' = "name_type") =>
                  limit' = Min(Min(limit, ext_len) - 2, U16At(pos))
            /\ (pc = "name_body" /\ name_typ = 0 /\ result'.tag = "ok") =>
                  limit' = Min(limit - 2, U16At(pos)) - U16At(pos)
      ]_vars

\* C7 witness: the extensions block declares more than the handshake budget
\* has left, and the budget stays what was left.
C7_Witness ==
    /\ pc = "ext_header" /\ extsSeen = <<>>
    /\ ext_len > limit
    /\ pos + limit = 4 + len

\* Offset of the entry that follows k entries of a ServerNameList starting at offset at.
RECURSIVE EntryAt(_, _)
EntryAt(at, k) ==
    IF k = 0 THEN at ELSE EntryAt(at + 3 + U16At(at + 1), k - 1)

\* C8: a returned host name is the payload of the first entry of name type 0
\* in the ServerNameList of the first extension of type 0: every extension
\* read before had another type, every entry read before had another name
\* type and was skipped whole, and the name is the payload of the entry that
\* follows them on the stream.
C8_NameIsFirstHostEntry ==
    (pc = "done" /\ result.tag = "ok") =>
        /\ extsSeen # <<>> /\ namesSeen # <<>>
        /\ \A i \in 1..Len(extsSeen) : (extsSeen[i].typ = 0) <=> (i = Len(extsSeen))
        /\ \A i \in 1..Len(namesSeen) : (namesSeen[i] = 0) <=> (i = Len(namesSeen))
        /\ LET list == Last(extsSeen).at + 2
               entry == EntryAt(list, Len(namesSeen) - 1)
           IN  /\ \A k \in 0..(Len(namesSeen) - 1) :
                      stream[EntryAt(list, k) + 1] = namesSeen[k + 1]
               /\ pos = entry + 3 + Len(result.name)
               /\ result.name = SubSeq(stream, entry + 4, entry + 3 + U16At(entry + 1))

\* C8 witness: on a tampered input, a name returned after an extension and
\* an entry of other types were skipped.
C8_Witness ==
    /\ pc = "done" /\ result.tag = "ok" /\ tamper.kind = "delta"
    /\ Len(extsSeen) >= 2 /\ Len(namesSeen) >= 2
    /\ Len(result.name) >= 1

\* C9: on success the stream is consumed up to and including the last byte
\* of the returned name and no further: the read position is the offset just
\* past the name, whatever follows it.
C9_ConsumedUpToName ==
    (pc = "done" /\ result.tag = "ok") =>
        /\ pos <= Len(stream)
        /\ result.name = LastRead(Len(result.name))
        /\ (tamper = NoTamper \/ (tamper.kind = "cut" /\ tamper.n >= NameEnd(hello))) =>
              pos = NameEnd(hello)

\* C9 witness: a name returned with an entry, an extension and more bytes after it.
C9_Witness ==
    /\ pc = "done" /\ result.tag = "ok" /\ tamper = NoTamper
    /\ Len(result.name) >= 1
    /\ FirstHost(FirstNames(hello)) < Len(FirstNames(hello))
    /\ FirstSni(hello.exts) < Len(hello.exts)
    /\ pos = NameEnd(hello) /\ pos < 4 + len

\* C10 as claimed: every unexpected-end-of-data error carries the requested
\* and the available byte counts.
C10_AsClaimed ==
    (pc = "done" /\ result.kind = "UnexpectedEof") => Len(result.detail) = 2

\* The error of a vector skip that took `took` bytes: the length of n bytes
\* could not be read, or the skip of the sz bytes it declares fell short.
VecSkipFailed(r, took, n, sz) ==
    /\ r.kind = "UnexpectedEof"
    /\ \/ took < n /\ r.detail = <<>>
       \/ took >= n /\ r.msg = "skip read" /\ r.detail = <<took - n, sz>> /\ took - n < sz

\* A read that could not get its bytes: no byte counts.
ReadFailed(r) == r.kind = "UnexpectedEof" /\ r.detail = <<>>

\* C10 amended: every skip or read that needs more bytes than the stream or
\* the budget supplies fails with an unexpected-end-of-data error; the error
\* of the fixed skip and of the skip inside a vector skip carries the bytes
\* read and the bytes requested, the error of a direct read (1, 2 or 3 bytes,
\* the name payload, the length of a vector) carries no counts.
C10_EofErrors ==
    [][ pc' = "done" =>
          LET took == pos' - pos
          IN  CASE pc = "type" ->
                      \/ ReadFailed(result') /\ took = 0
                      \/ result'.kind = "InvalidData" /\ took = 1
                [] pc = "random" ->
                      /\ result'.kind = "UnexpectedEof" /\ result'.msg = "skip read"
                      /\ result'.detail = <<took, 34>> /\ took < 34
                [] pc = "ext_body" /\ ext_typ # 0 ->
                      /\ result'.kind = "UnexpectedEof" /\ result'.msg = "skip read"
                      /\ result'.detail = <<took, ext_len>> /\ took < ext_len
                [] pc \in {"session_id", "compression"} ->
                      VecSkipFailed(result', took, 1, IF took >= 1 THEN stream[pos + 1] ELSE 0)
                [] pc = "cipher_suites" \/ (pc = "name_body" /\ name_typ # 0) ->
                      VecSkipFailed(result', took, 2, IF took >= 2 THEN U16At(pos) ELSE 0)
                [] pc = "name_body" /\ name_typ = 0 ->
                      \/ ReadFailed(result')
                      \/ result'.tag = "ok"
                      \/ result'.kind = "InvalidData"
                [] OTHER -> ReadFailed(result')
      ]_vars

\* C10 witness: a vector skip that fell short, its error carrying both counts.
C10_Witness ==
    /\ pc = "done" /\ result.kind = "UnexpectedEof"
    /\ namesSeen # <<>> /\ Last(namesSeen) # 0
    /\ Len(result.detail) = 2 /\ result.detail[1] < result.detail[2]

(***************************************************************************)
(* What a statement asks of the reader, read off the stream itself.        *)
(***************************************************************************)

\* The bytes the reader can still deliver: up to the end of the stream, or of
\* the budget when there is one.
Room ==
    IF limit = Unlimited THEN Len(stream) - pos ELSE Min(limit, Len(stream) - pos)

\* The same for the statement at pc: the SNI extension narrows the budget to
\* its declared length before it reads.
StepRoom ==
    IF pc = "ext_body" /\ ext_typ = 0 THEN Min(Room, ext_len) ELSE Room

\* The bytes the statement at pc asks for when room bytes can be delivered: a
\* length prefix first, then as many bytes as the prefix on the stream says.
Wanted(room) ==
    CASE pc = "type" -> 1
      [] pc = "len" -> 3
      [] pc = "random" -> 34
      [] pc \in {"session_id", "compression"} ->
            IF room >= 1 THEN 1 + stream[pos + 1] ELSE 1
      [] pc \in {"cipher_suites", "name_body"} ->
            IF room >= 2 THEN 2 + U16At(pos) ELSE 2
      [] pc = "extensions" -> 2
      [] pc = "ext_header" -> 4
      [] pc = "ext_body" -> IF ext_typ = 0 THEN 2 ELSE ext_len
      [] pc = "name_type" -> 1
      [] OTHER -> 0

\* C12: a failed primitive ends the call at once. A statement that asks for
\* more bytes than the reader can deliver ends the call with an
\* unexpected-end-of-data error and no name, having consumed what could be
\* delivered and not a byte more; a statement whose bytes are all delivered
\* consumes exactly those; and nothing runs once the call has ended.
C12_FailureEndsTheCall ==
    [][ /\ pc # "done"
        /\ LET room == StepRoom
               n    == Wanted(room)
           IN  IF n > room
               THEN /\ pc' = "done"
                    /\ result'.tag = "err" /\ result'.kind = "UnexpectedEof"
                    /\ result'.name = <<>>
                    /\ pos' = pos + room
               ELSE /\ pos' = pos + n
                    /\ pc' = "done" => result'.kind # "UnexpectedEof" ]_vars

\* C12 witness: a length read found the budget used up; the call has ended
\* with that error although the stream holds more bytes.
C12_Witness ==
    /\ pc = "done"
    /\ result = IntEof
    /\ limit = 0 /\ pos < Len(stream)

\* C13: an extension of a type other than SNI whose declared length X fits
\* what the extensions budget and the stream still hold is skipped: its 4
\* header bytes and then exactly X bytes are consumed, the loop goes on to the
\* next header right behind them, and the budget left is the budget before
\* the header less 4 + X: the skip does not narrow the budget to X.
C13_SkipKeepsBlockBudget ==
    [][ /\ (pc = "ext_header" /\ pc' = "ext_body") =>
              /\ pos' = pos + 4 /\ limit' = limit - 4
              /\ Last(extsSeen') = [typ |-> U16At(pos), len |-> U16At(pos + 2),
                                    at |-> pos + 4, room |-> limit - 4]
        /\ (pc = "ext_body" /\ ext_typ # 0 /\ ext_len <= Room) =>
              /\ Last(extsSeen).len = ext_len /\ Last(extsSeen).room = limit
              /\ pc' = "ext_header" /\ result' = NoResult
              /\ pos' = pos + ext_len
              /\ limit' = limit - ext_len ]_vars

\* C13 witness: an extension of another type with a body was skipped, and
\* the budget left for the extensions behind it is what its header left,
\* less its body.
C13_Witness ==
    /\ pc = "ext_header"
    /\ Len(extsSeen) = 1
    /\ extsSeen[1].typ # 0 /\ extsSeen[1].len > 0
    /\ pos = extsSeen[1].at + extsSeen[1].len
    /\ limit = extsSeen[1].room - extsSeen[1].len
    /\ limit > extsSeen[1].len

\* The budget is the first SNI extension's, or less: the reads end no later
\* than that extension does.
InsideFirstSni ==
    /\ limit >= 0
    /\ pos + limit <= Last(extsSeen).at + Min(Last(extsSeen).len, Last(extsSeen).room)

\* C14: the first extension of type 0 is decisive. No extension header is
\* read after it; once its body is entered the budget stays inside it for
\* the rest of the call; and when its ServerNameList holds no entry of type
\* 0 the call fails with an unexpected-end-of-data error at the end of that
\* extension, also when a later extension of type 0 holds a host name.
C14_FirstSniDecides ==
    /\ \A i \in 1..Len(extsSeen) - 1 : extsSeen[i].typ # 0
    /\ (extsSeen # <<>> /\ Last(extsSeen).typ = 0 /\ pc # "ext_body") =>
            InsideFirstSni
    /\ (pc = "done" /\ tamper = NoTamper /\ SniCount(hello) >= 1 /\ ~HasHost(hello)) =>
            /\ result = IntEof
            /\ Len(extsSeen) = FirstSni(hello.exts)
            /\ pos = Last(extsSeen).at + Last(extsSeen).len

\* C14 witness: the hello holds two SNI extensions; the ServerNameList of the
\* first has one entry of another type, the second holds a host name. The
\* call failed at the end of the first, the second unread.
C14_Witness ==
    /\ pc = "done" /\ tamper = NoTamper
    /\ SniCount(hello) = 2
    /\ namesSeen = <<1>>
    /\ Len(extsSeen) = FirstSni(hello.exts)
    /\ result = IntEof
    /\ stream[pos + 1] = 0 /\ stream[pos + 2] = 0

\* C16: skip(n) succeeds exactly when n bytes can be delivered before the
\* stream or the budget ends, and then takes exactly n bytes off position and
\* budget (none for n = 0); otherwise it fails with an unexpected-end-of-data
\* error that reports the bytes copied and n, having consumed every byte
\* that could be delivered, fewer than n. Checked on the skip of the 34 fixed
\* bytes and on the skip of an extension body.
C16_SkipAllOrError ==
    [][ (pc = "random" \/ (pc = "ext_body" /\ ext_typ # 0)) =>
          LET n == IF pc = "random" THEN 34 ELSE ext_len
          IN  /\ (pc' # "done") = (n <= Room)
              /\ n <= Room =>
                    /\ pos' = pos + n /\ limit' = limit - n
                    /\ result' = NoResult
              /\ n > Room =>
                    /\ pos' = pos + Room /\ limit' = limit - Room
                    /\ result' = SkipError(Room, n) ]_vars

\* C16 witness: a skip of no bytes was asked for; it succeeded with position
\* and budget as they were, and the loop went on.
C16_Witness ==
    /\ pc = "ext_header"
    /\ extsSeen # <<>> /\ Last(extsSeen).typ # 0 /\ Last(extsSeen).len = 0
    /\ pos = Last(extsSeen).at /\ limit = Last(extsSeen).room

\* C17: a host-name entry that declares no bytes, with its 2-byte length
\* inside the budget, ends the call with the empty name: the 2 length bytes
\* are consumed and no byte after them, whatever follows on the stream.
C17_EmptyNameSucceeds ==
    [][ (pc = "name_body" /\ name_typ = 0 /\ Room >= 2 /\ U16At(pos) = 0) =>
          /\ pc' = "done"
          /\ result' = Ok(<<>>)
          /\ pos' = pos + 2
          /\ limit' = 0 ]_vars

\* C17 witness: the hello's host name is empty and the stream ends with its
\* length field; the call returned the empty name.
C17_Witness ==
    /\ pc = "done"
    /\ HasHost(hello) /\ TheHostName(hello) = <<>>
    /\ tamper.kind = "cut" /\ Len(stream) = NameEnd(hello)
    /\ pos = Len(stream)
    /\ result = Ok(<<>>)

(***************************************************************************)
(* read_u24 on every combination of low, middle and high byte values: the  *)
(* stream is a handshake header of type 1 with 0 to 3 of its length bytes. *)
(***************************************************************************)
ByteSamples == {0, 1, 127, 128, 255}

InitU24 ==
    /\ \E b0 \in ByteSamples, b1 \in ByteSamples, b2 \in ByteSamples, k \in 0..3 :
          /\ stream = <<1>> \o SubSeq(<<b0, b1, b2>>, 1, k)
          /\ tamper = [kind |-> "cut", field |-> "", n |-> 1 + k]
    /\ hello = [v |-> 0, exts |-> <<>>]
    /\ pos = 0
    /\ limit = Unlimited
    /\ pc = "type"
    /\ result = NoResult
    /\ len = 0
    /\ ext_typ = 0
    /\ ext_len = 0
    /\ name_typ = 0
    /\ extsSeen = <<>>
    /\ namesSeen = <<>>
    /\ fut = FutInit

NextU24 ==
    \/ ReadType
    \/ ReadLen

SpecU24 == InitU24 /\ [][NextU24]_vars

\* C18: read_u24 consumes exactly the 3 bytes after the type byte and
\* returns b0 * 65536 + b1 * 256 + b2, the number whose 3-byte network-order
\* encoding those bytes are, between 0 and 2^24 - 1; that number, whole, is
\* the handshake length and the budget. With fewer than 3 bytes on the
\* stream it fails with the unexpected-end-of-data error of read_exact,
\* having consumed them.
C18_ReadU24IsBigEndian ==
    /\ pc = "random" =>
          /\ pos = 4
          /\ len = stream[2] * 65536 + stream[3] * 256 + stream[4]
          /\ U24(len) = SubSeq(stream, 2, 4)
          /\ len \in 0..16777215
          /\ limit = len
    /\ pc = "done" =>
          /\ Len(stream) < 4
          /\ pos = Len(stream)
          /\ result = EarlyEof
    /\ Len(stream) = 4 => pc # "done"

\* C18 witness: the three length bytes are 255; the length and the budget
\* are 2^24 - 1.
C18_Witness ==
    /\ pc = "random"
    /\ SubSeq(stream, 2, 4) = <<255, 255, 255>>
    /\ len = 16777215 /\ limit = 16777215

(***************************************************************************)
(* The call as the executor runs it: a future that is polled.  Every       *)
(* .await is a read or a skip that keeps what it has got across polls.  A  *)
(* poll of the reader delivers some of the bytes asked for (as many as     *)
(* have arrived, at least one), or finds no data ready and suspends the    *)
(* future until it is woken, or finds the end of the stream or of the      *)
(* budget.  The future runs on the stream of a call that has ended with    *)
(* all bytes at hand, so that the two can be compared.                     *)
(***************************************************************************)

\* The awaits that skip; the others read.
SkipAwaits ==
    {"random", "session_id", "cipher_suites", "compression", "ext_skip", "skip_name"}

\* The ClientHellos the future is run on: every vector and every list with
\* as many entries as the bounds allow, then no SNI extension, or one with
\* no host name, or one with each of the host names.
AsyncHellos ==
    { [v |-> MaxVecLen, exts |-> OtherExts(MaxOther) \o sni] :
        sni \in {<<>>} \cup
                { <<SniExt(Fill(MaxOther, OtherEntry) \o host)>> :
                    host \in {<<>>} \cup {<<HostEntry(n)>> : n \in Names} } }

InitAsync ==
    /\ hello \in AsyncHellos
    /\ tamper \in Tampers(hello)
    /\ stream = InputOf(hello, tamper)
    /\ pos = 0
    /\ limit = Unlimited
    /\ pc = "type"
    /\ result = NoResult
    /\ len = 0
    /\ ext_typ = 0
    /\ ext_len = 0
    /\ name_typ = 0
    /\ extsSeen = <<>>
    /\ namesSeen = <<>>
    /\ fut = FutInit

\* What the future's reader can deliver at most: Take::poll_read stops at the
\* budget, the stream at its end.
FutRoom ==
    IF fut.limit = Unlimited THEN Len(stream) - fut.pos
    ELSE Min(fut.limit, Len(stream) - fut.pos)

\* The await has not got all its bytes yet and polls the reader.
Polling == fut.pc # "done" /\ ~fut.pending /\ Len(fut.got) < fut.want

sync == <<pos, limit, pc, result, len, ext_typ, ext_len, name_typ, extsSeen, namesSeen>>

\* The next await: a read of n bytes or a skip of n bytes.
Await(f, label, n) == [f EXCEPT !.pc = label, !.want = n, !.got = <<>>]
\* reader.set_limit(min(reader.limit(), declared))
Narrow(f, declared) == [f EXCEPT !.limit = NewLimit(@, declared)]
\* `?` and `return`
Finish(f, e) == [f EXCEPT !.pc = "done", !.result = e]

\* read_u8, read_u16, NetworkEndian::read_u24 of the bytes got.
BigEndian(b) ==
    CASE Len(b) = 1 -> b[1]
      [] Len(b) = 2 -> b[1] * 256 + b[2]
      [] Len(b) = 3 -> b[1] * 65536 + b[2] * 256 + b[3]

\* The error of an await that met the end of the data: read_u8 and read_u16
\* fail bare, read_exact with "early eof", skip with the count of its copy.
EofError(f) ==
    IF f.pc \in SkipAwaits THEN SkipError(Len(f.got), f.want)
    ELSE IF f.pc \in {"len", "name"} THEN EarlyEof
    ELSE IntEof

\* The statements that follow an await that has got all its bytes, up to the
\* next await or the end of the call.
Resumed(f) ==
    LET v == BigEndian(f.got)
    IN  CASE f.pc = "type" ->
                IF v # HANDSHAKE_TYPE_CLIENT_HELLO
                THEN Finish(f, WrongTypeError(v))
                ELSE Await(f, "len", 3)
          [] f.pc = "len" -> Await([f EXCEPT !.limit = v], "random", RandomLen)
          [] f.pc = "random" -> Await(f, "session_id_len", 1)
          [] f.pc = "session_id_len" -> Await(f, "session_id", v)
          [] f.pc = "session_id" -> Await(f, "cipher_suites_len", 2)
          [] f.pc = "cipher_suites_len" -> Await(f, "cipher_suites", v)
          [] f.pc = "cipher_suites" -> Await(f, "compression_len", 1)
          [] f.pc = "compression_len" -> Await(f, "compression", v)
          [] f.pc = "compression" -> Await(f, "extensions_len", 2)
          [] f.pc = "extensions_len" -> Await(Narrow(f, v), "ext_typ", 2)
          [] f.pc = "ext_typ" -> Await([f EXCEPT !.ext_typ = v], "ext_len", 2)
          [] f.pc = "ext_len" ->
                IF f.ext_typ # EXTENSION_TYPE_SNI
                THEN Await(f, "ext_skip", v)
                ELSE Await(Narrow(f, v), "snl_len", 2)
          [] f.pc = "ext_skip" -> Await(f, "ext_typ", 2)
          [] f.pc = "snl_len" -> Await(Narrow(f, v), "name_typ", 1)
          [] f.pc = "name_typ" ->
                IF v # NAME_TYPE_HOST_NAME
                THEN Await(f, "skip_name_len", 2)
                ELSE Await(f, "name_len", 2)
          [] f.pc = "skip_name_len" -> Await(f, "skip_name", v)
          [] f.pc = "skip_name" -> Await(f, "name_typ", 1)
          [] f.pc = "name_len" -> Await(Narrow(f, v), "name", v)
          [] f.pc = "name" -> Finish(f, FromUtf8(f.got))

\* As PollData, with the bytes delivered left on the reader.
PollDataPeek ==
    /\ pc = "done"
    /\ Polling
    /\ \E c \in 1..Min(fut.want - Len(fut.got), FutRoom) :
          fut' = [fut EXCEPT
                    !.got = @ \o SubSeq(stream, fut.pos + 1, fut.pos + c)]
    /\ UNCHANGED <<input, sync>>

\* poll_read is Ready with c bytes: some or all of the bytes the await still
\* asks for, whatever part of them has arrived.
PollData ==
    /\ pc = "done"
    /\ Polling
    /\ \E c \in 1..Min(fut.want - Len(fut.got), FutRoom) :
          fut' = [fut EXCEPT
                    !.got = @ \o SubSeq(stream, fut.pos + 1, fut.pos + c),
                    !.pos = @ + c,
                    !.limit = IF @ = Unlimited THEN Unlimited ELSE @ - c]
    /\ UNCHANGED <<input, sync>>

\* poll_read is Pending: bytes are asked of the stream and none is ready, nor
\* is the end of the stream known. The future is suspended.
PollPending ==
    /\ pc = "done"
    /\ Polling
    /\ fut.limit # 0
    /\ fut' = [fut EXCEPT !.pending = TRUE,
                          !.split = @ \/ Len(fut.got) > 0]
    /\ UNCHANGED <<input, sync>>

\* As Wake, with the await started anew: the bytes it had got are dropped.
WakeRestarted ==
    /\ pc = "done"
    /\ fut.pending
    /\ fut' = [fut EXCEPT !.pending = FALSE, !.got = <<>>]
    /\ UNCHANGED <<input, sync>>

\* Bytes or the end of the stream arrived: the waker is called and the
\* future is polled again, the await going on where it was.
Wake ==
    /\ pc = "done"
    /\ fut.pending
    /\ fut' = [fut EXCEPT !.pending = FALSE]
    /\ UNCHANGED <<input, sync>>

\* poll_read is Ready with no byte: the budget is used up or the stream has
\* ended. The await fails, and with it the call.
PollEof ==
    /\ pc = "done"
    /\ Polling
    /\ FutRoom = 0
    /\ fut' = Finish(fut, EofError(fut))
    /\ UNCHANGED <<input, sync>>

\* The await has got all its bytes (at once when it asks for none): the
\* future runs on to the next await.
Resume ==
    /\ pc = "done"
    /\ fut.pc # "done" /\ ~fut.pending
    /\ Len(fut.got) = fut.want
    /\ fut' = Resumed(fut)
    /\ UNCHANGED <<input, sync>>

NextAsync ==
    \/ Next
    \/ PollData
    \/ PollPending
    \/ Wake
    \/ PollEof
    \/ Resume

SpecAsync == InitAsync /\ [][NextAsync]_vars

\* C11: however the bytes arrive - in whatever pieces, the future suspended
\* at any read or skip, the end of the stream signalled at the end - the
\* call consumes the stream from the front, byte after byte, and ends with
\* the result, the read position and the budget of the call that had all
\* bytes at hand.
C11_ArrivalDoesNotMatter ==
    /\ fut.pos <= Len(stream)
    /\ Len(fut.got) <= fut.want
    /\ fut.pc \notin SkipAwaits =>
            fut.got = SubSeq(stream, fut.pos - Len(fut.got) + 1, fut.pos)
    /\ fut.pc = "done" =>
            /\ fut.result = result
            /\ fut.pos = pos
            /\ fut.limit = limit

\* C11 witness: the call returned a host name of two bytes or more after it
\* had been suspended with an await half served, and so did the call with
\* all bytes at hand.
C11_Witness ==
    /\ fut.pc = "done" /\ fut.split
    /\ result.tag = "ok" /\ Len(result.name) >= 2
    /\ fut.result = result /\ fut.pos = pos

(***************************************************************************)
(* The same under a stream that serves every read in the end: a suspended  *)
(* future is woken, and a future that polls again and again is in the end  *)
(* given a byte or the end of the data. The call with all bytes at hand    *)
(* just runs.                                                              *)
(***************************************************************************)
\* The ClientHellos of AsyncHellos with no host name, the empty one, or the
\* longest.
ServedHellos ==
    { h \in AsyncHellos :
        HasHost(h) => TheHostName(h) \in {<<>>, Fill(MaxNameLen, 97)} }

InitServed ==
    /\ hello \in ServedHellos
    /\ tamper \in Tampers(hello)
    /\ stream = InputOf(hello, tamper)
    /\ pos = 0
    /\ limit = Unlimited
    /\ pc = "type"
    /\ result = NoResult
    /\ len = 0
    /\ ext_typ = 0
    /\ ext_len = 0
    /\ name_typ = 0
    /\ extsSeen = <<>>
    /\ namesSeen = <<>>
    /\ fut = FutInit

Served ==
    \/ PollData
    \/ PollEof
    \/ Resume

SpecServed ==
    /\ InitServed
    /\ [][NextAsync]_vars
    /\ WF_vars(Next)
    /\ WF_vars(Wake)
    /\ SF_vars(Served)

\* Each pass of the loop over the extensions takes the 4 header bytes off the
\* budget and the skip takes no less than nothing; each pass of the loop over
\* the names takes the type byte and then the 2 length bytes or more; and the
\* budget is a number from 0 to 2^24 - 1.
LoopsUseUpBudget ==
    /\ limit' # Unlimited => limit' \in 0..16777215
    /\ (pc = "ext_header" /\ pc' = "ext_body") => limit' = limit - 4
    /\ (pc = "ext_body" /\ pc' = "ext_header") => limit' <= limit
    /\ (pc = "name_type" /\ pc' = "name_body") => limit' = limit - 1
    /\ (pc = "name_body" /\ pc' = "name_type") => limit' <= limit - 2
    /\ (pc \in {"ext_header", "name_type"} /\ pc' = "done") => pos' - pos < 4

\* The same for the polled future: an await is left for the next only with
\* all its bytes got, each of them taken off the reader and off the budget;
\* the budget never rises and its end never moves out.
FutUsesUpBudget ==
    /\ fut'.limit # Unlimited => fut'.limit \in 0..16777215
    /\ fut'.pos - fut.pos = IF fut'.pc = fut.pc THEN Len(fut'.got) - Len(fut.got) ELSE 0
    /\ fut.limit # Unlimited =>
            /\ fut'.limit <= fut.limit
            /\ fut'.pos + fut'.limit <= fut.pos + fut.limit
    /\ (fut'.pc \notin {fut.pc, "done"}) => Len(fut.got) = fut.want
    /\ (fut.pc \in {"ext_typ", "ext_len", "skip_name_len"}) => fut.want = 2
    /\ fut.pc = "name_typ" => fut.want = 1

\* C15: on a stream that in the end serves every read with a byte or with
\* the end of the data the call ends, run at once or polled piece by piece.
\* Every pass of the loop over the extensions consumes the 4 header bytes or
\* fails, every pass of the loop over the names consumes 3 bytes or more or
\* fails, so the budget, at most 2^24 - 1, is lower after each pass and
\* neither loop goes on forever, however many bytes the stream has beyond
\* the budget.
C15_Terminates ==
    /\ <>(pc = "done" /\ fut.pc = "done")
    /\ [][LoopsUseUpBudget /\ FutUsesUpBudget]_vars

\* C15 witness: both runs have ended after two passes of the loop over the
\* extensions and two of the loop over the names, the future having been
\* suspended with an await half served, and bytes are left on the stream.
C15_Witness ==
    /\ pc = "done" /\ fut.pc = "done"
    /\ Len(extsSeen) = 2 /\ Len(namesSeen) = 2
    /\ fut.split
    /\ pos < Len(stream)

====
